---- MODULE Spec2Model ----
(***************************************************************************)
(* A model of the HTTP layer of the Hyperliquid Rust SDK (src/src/req.rs)  *)
(* and of the order-submission code that drives it (src/src/bin).          *)
(*                                                                         *)
(* A Rust String is modelled as a text: a sequence of lexemes.  The JSON   *)
(* lexemes are the six punctuation marks, string literals, non-negative    *)
(* integer literals, other scalar literals (null, true, -1, 1.5) and       *)
(* insignificant whitespace; "raw" is a run of characters that is no JSON  *)
(* lexeme.  Two texts are the same String iff they are equal sequences.    *)
(* A lexeme is [t: its kind, v: its characters, n: the number it denotes]. *)
(*                                                                         *)
(* The submission of an order (src/src/bin/test_sdk_internal_latency.rs)   *)
(* works on bytes: there a Vec<u8> is a sequence of numbers 0..255, a      *)
(* String the sequence of its UTF-8 bytes, and a serde_json::Value a tree. *)
(* Integers of the model stay below 2^31.                                  *)
(***************************************************************************)
EXTENDS Integers, Sequences, FiniteSets, TLC

VARIABLES
    in_status,        \* parse_response: response.status().as_u16()
    in_text,          \* parse_response: outcome of response.text().await
    out_parse,        \* parse_response: the value returned
    out_outcome,      \* the outcome the caller's match derives
    HL_PERF_PROFILE,  \* whether the environment variable is set
    pc,               \* HttpClient::post: where each task's call stands
    perf_profile,     \* post: the flag as read when the call began
    executes,         \* post: calls of client.execute made by the call
    parses,           \* post: calls of parse_response made by the call
    response,         \* post: the Response held between execute and parse
    perf_log,         \* post: the [PERF] lines the call has written
    result,           \* post: the value returned
    failure,          \* post: the first stage that failed, and its error
    CUR_NONCE,        \* next_nonce: the last nonce issued in this process
    now_ms,           \* the wall clock, in milliseconds
    tick,             \* real time: the number of calls and returns so far
    npc,              \* next_nonce: where each task's call stands
    ncall,            \* next_nonce: when each task's call began, its value
    issued,           \* next_nonce: the completed calls
    net,              \* what the transport does to the calls of one run
    in_action,        \* digest: the action handed to the digest stage
    in_nonce,         \* digest: the nonce handed to the digest stage
    out_digest,       \* digest: what each application of the stage produced
    base_url,         \* exchange.http_client.base_url
    coin_to_asset,    \* exchange.coin_to_asset
    buy_px,           \* submission: the limit price of the run
    sz_decimals,      \* submission: the size decimals of the asset
    spc,              \* submission: the stage the round is about to run
    round,            \* submission: i of the loop over the rounds
    order,            \* submission: the ClientOrderRequest of the round
    transformed_order,\* submission: what order.convert returned
    action,           \* submission: the Actions::Order of the round
    timestamp,        \* submission: the nonce of the round
    bytes,            \* submission: the signing preimage
    connection_id,    \* submission: keccak256 of the preimage
    is_mainnet,       \* submission: the network identity handed to the signer
    signature,        \* submission: what sign_l1_action returned
    action_json,      \* submission: serde_json::to_value of the action
    payload,          \* submission: the envelope
    sent,             \* submission: the requests given to the transport
    stages,           \* submission: the stages the round has run, in order
    exited            \* submission: the error main returned with, if any

pureVars == <<in_status, in_text, out_parse, out_outcome>>

postVars == <<HL_PERF_PROFILE, pc, perf_profile, executes, parses, response,
              perf_log, result, failure>>

nonceVars == <<CUR_NONCE, now_ms, tick, npc, ncall, issued>>

netVars == <<net>>

digestVars == <<in_action, in_nonce, out_digest>>

submitVars == <<base_url, coin_to_asset, buy_px, sz_decimals, spc, round,
                order, transformed_order, action, timestamp, bytes,
                connection_id, is_mainnet, signature, action_json, payload,
                sent, stages, exited>>

vars == <<in_status, in_text, out_parse, out_outcome, HL_PERF_PROFILE, pc,
          perf_profile, executes, parses, response, perf_log, result, failure,
          CUR_NONCE, now_ms, tick, npc, ncall, issued, net, in_action,
          in_nonce, out_digest, base_url, coin_to_asset, buy_px,
          sz_decimals, spc, round, order,
          transformed_order, action, timestamp, bytes, connection_id,
          is_mainnet, signature, action_json, payload, sent, stages, exited>>

----------------------------------------------------------------------------
(* Option<T> and Result<T, E>                                              *)

None == [some |-> FALSE]

Some(x) == [some |-> TRUE, v |-> x]

NotYet == [tag |-> "NotYet"]

----------------------------------------------------------------------------
(* The parts of the state a specification does not exercise stay as they   *)
(* are here.                                                               *)

\* for i in 1..=3
Rounds == 3

NoNet == [build |-> "ok", execute |-> "responds", status |-> 200,
          body |-> <<>>, read |-> "ok", timeout |-> FALSE]

InitNetIdle == net = NoNet

InitDigestIdle ==
    /\ in_action = None
    /\ in_nonce = 0
    /\ out_digest = <<>>

InitRound ==
    /\ order = None
    /\ transformed_order = None
    /\ action = None
    /\ timestamp = None
    /\ bytes = None
    /\ connection_id = None
    /\ is_mainnet = None
    /\ signature = None
    /\ action_json = None
    /\ payload = None
    /\ sent = <<>>
    /\ stages = <<>>

InitSubmitIdle ==
    /\ base_url = "https://api.hyperliquid.xyz"
    /\ coin_to_asset = [BTC |-> 0, ETH |-> 1]
    /\ buy_px = 0
    /\ sz_decimals = 0
    /\ spc = "done"
    /\ round = Rounds
    /\ exited = None
    /\ InitRound

InitElsewhere == InitNetIdle /\ InitDigestIdle /\ InitSubmitIdle

----------------------------------------------------------------------------
(* Texts                                                                   *)

LBrace == [t |-> "{", v |-> "", n |-> 0]

RBrace == [t |-> "}", v |-> "", n |-> 0]

LBrack == [t |-> "[", v |-> "", n |-> 0]

RBrack == [t |-> "]", v |-> "", n |-> 0]

Colon == [t |-> ":", v |-> "", n |-> 0]

Comma == [t |-> ",", v |-> "", n |-> 0]

Ws == [t |-> "ws", v |-> " ", n |-> 0]

Str(c) == [t |-> "str", v |-> c, n |-> 0]

Num(n) == [t |-> "num", v |-> "", n |-> n]

Lit(w) == [t |-> "lit", v |-> w, n |-> 0]

Raw(c) == [t |-> "raw", v |-> c, n |-> 0]

\* The String whose characters are c (no quotes: the content itself).
Text(c) == IF c = "" THEN <<>> ELSE <<Raw(c)>>

\* u16::MAX, the range of ErrorData.code.
U16Max == 65535

----------------------------------------------------------------------------
(* serde_json: a JSON value read from position i of a lexeme sequence.     *)

RECURSIVE ParseValue(_, _)
RECURSIVE ParseElems(_, _, _)
RECURSIVE ParseMembers(_, _, _)

NoValue == [ok |-> FALSE, next |-> 0, val |-> [k |-> "none"]]

Value(next, val) == [ok |-> TRUE, next |-> next, val |-> val]

ParseValue(s, i) ==
    IF i > Len(s) THEN NoValue
    ELSE CASE s[i].t = "str" -> Value(i + 1, [k |-> "str", s |-> s[i].v])
           [] s[i].t = "num" -> Value(i + 1, [k |-> "num", n |-> s[i].n])
           [] s[i].t = "lit" -> Value(i + 1, [k |-> "lit", w |-> s[i].v])
           [] s[i].t = "[" ->
                IF i + 1 <= Len(s) /\ s[i + 1].t = "]"
                THEN Value(i + 2, [k |-> "arr", e |-> <<>>])
                ELSE ParseElems(s, i + 1, <<>>)
           [] s[i].t = "{" ->
                IF i + 1 <= Len(s) /\ s[i + 1].t = "}"
                THEN Value(i + 2, [k |-> "obj", m |-> <<>>])
                ELSE ParseMembers(s, i + 1, <<>>)
           [] OTHER -> NoValue

ParseElems(s, i, acc) ==
    LET r == ParseValue(s, i) IN
    IF ~r.ok \/ r.next > Len(s) THEN NoValue
    ELSE IF s[r.next].t = "," THEN ParseElems(s, r.next + 1, Append(acc, r.val))
    ELSE IF s[r.next].t = "]"
         THEN Value(r.next + 1, [k |-> "arr", e |-> Append(acc, r.val)])
    ELSE NoValue

ParseMembers(s, i, acc) ==
    IF i + 1 > Len(s) \/ s[i].t # "str" \/ s[i + 1].t # ":" THEN NoValue
    ELSE LET r == ParseValue(s, i + 2) IN
         IF ~r.ok \/ r.next > Len(s) THEN NoValue
         ELSE LET acc2 == Append(acc, [key |-> s[i].v, val |-> r.val]) IN
              IF s[r.next].t = "," THEN ParseMembers(s, r.next + 1, acc2)
              ELSE IF s[r.next].t = "}"
                   THEN Value(r.next + 1, [k |-> "obj", m |-> acc2])
              ELSE NoValue

\* Whitespace between lexemes is insignificant to the parser.
Lex(text) == SelectSeq(text, LAMBDA x : x.t # "ws")

\* A lexeme that can begin a JSON value.
StartsValue(x) == x.t \in {"str", "num", "lit", "[", "{"}

----------------------------------------------------------------------------
(* serde_json::from_str::<ErrorData>: the derived Deserialize of           *)
(* struct ErrorData { data: String, code: u16, msg: String }.              *)

DeErr(d) == [ok |-> FALSE, err |-> d]

DeOk(next, data, code, msg) ==
    [ok |-> TRUE, next |-> next, data |-> data, code |-> code, msg |-> msg]

ErrorDataFields == {"data", "code", "msg"}

\* A String field: the literal must be a JSON string.
DeString(s, i) ==
    IF i > Len(s) THEN DeErr("EOF while parsing a value")
    ELSE IF s[i].t = "str" THEN [ok |-> TRUE, v |-> s[i].v]
    ELSE IF StartsValue(s[i]) THEN DeErr("invalid type, expected a string")
    ELSE DeErr("expected value")

\* A u16 field: a non-negative integer literal no larger than u16::MAX.
DeU16(s, i) ==
    IF i > Len(s) THEN DeErr("EOF while parsing a value")
    ELSE IF s[i].t = "num"
         THEN IF s[i].n <= U16Max THEN [ok |-> TRUE, v |-> s[i].n]
              ELSE DeErr("invalid value, expected u16")
    ELSE IF StartsValue(s[i]) THEN DeErr("invalid type, expected u16")
    ELSE DeErr("expected value")

DeField(key, s, i) == IF key = "code" THEN DeU16(s, i) ELSE DeString(s, i)

\* After the closing brace: every field must have been seen.
FinishMap(acc, next) ==
    IF ~acc.data.some THEN DeErr("missing field data")
    ELSE IF ~acc.code.some THEN DeErr("missing field code")
    ELSE IF ~acc.msg.some THEN DeErr("missing field msg")
    ELSE DeOk(next, acc.data.v, acc.code.v, acc.msg.v)

RECURSIVE VisitMap(_, _, _, _)

\* The object form: members in any order, unknown keys skipped, a key seen
\* twice rejected before its value is read.
VisitMap(s, i, acc, first) ==
    IF i > Len(s) THEN DeErr("EOF while parsing an object")
    ELSE IF s[i].t = "}" THEN FinishMap(acc, i + 1)
    ELSE IF ~first /\ s[i].t # "," THEN DeErr("expected , or }")
    ELSE LET k == IF first THEN i ELSE i + 1 IN
         IF k > Len(s) THEN DeErr("EOF while parsing an object")
         ELSE IF ~first /\ s[k].t = "}" THEN DeErr("trailing comma")
         ELSE IF s[k].t # "str" THEN DeErr("key must be a string")
         ELSE IF k + 1 > Len(s) THEN DeErr("EOF while parsing an object")
         ELSE IF s[k + 1].t # ":" THEN DeErr("expected :")
         ELSE IF s[k].v \in ErrorDataFields
              THEN IF acc[s[k].v].some THEN DeErr("duplicate field")
                   ELSE LET f == DeField(s[k].v, s, k + 2) IN
                        IF ~f.ok THEN f
                        ELSE VisitMap(s, k + 3,
                                      [acc EXCEPT ![s[k].v] = Some(f.v)], FALSE)
              ELSE LET r == ParseValue(s, k + 2) IN
                   IF ~r.ok THEN DeErr("expected value")
                   ELSE VisitMap(s, r.next, acc, FALSE)

\* The array form: the fields in declaration order data, code, msg.
VisitSeq(s) ==
    IF Len(s) >= 2 /\ s[2].t = "]" THEN DeErr("invalid length 0")
    ELSE LET d == DeString(s, 2) IN
    IF ~d.ok THEN d
    ELSE IF Len(s) < 3 THEN DeErr("EOF while parsing a list")
    ELSE IF s[3].t = "]" THEN DeErr("invalid length 1")
    ELSE IF s[3].t # "," THEN DeErr("expected , or ]")
    ELSE LET c == DeU16(s, 4) IN
    IF ~c.ok THEN c
    ELSE IF Len(s) < 5 THEN DeErr("EOF while parsing a list")
    ELSE IF s[5].t = "]" THEN DeErr("invalid length 2")
    ELSE IF s[5].t # "," THEN DeErr("expected , or ]")
    ELSE LET m == DeString(s, 6) IN
    IF ~m.ok THEN m
    ELSE IF Len(s) < 7 THEN DeErr("EOF while parsing a list")
    ELSE IF s[7].t # "]" THEN DeErr("trailing characters")
    ELSE DeOk(8, d.v, c.v, m.v)

FromStrErrorData(text) ==
    LET s == Lex(text)
        r == IF Len(s) = 0 THEN DeErr("EOF while parsing a value")
             ELSE IF s[1].t = "{"
                  THEN VisitMap(s, 2, [data |-> None, code |-> None, msg |-> None], TRUE)
             ELSE IF s[1].t = "[" THEN VisitSeq(s)
             ELSE IF StartsValue(s[1])
                  THEN DeErr("invalid type, expected struct ErrorData")
             ELSE DeErr("expected value")
    IN  IF r.ok /\ r.next # Len(s) + 1 THEN DeErr("trailing characters") ELSE r

----------------------------------------------------------------------------
(* crate::Error and Result<String>                                         *)

OkText(text) == [tag |-> "Ok", text |-> text]

GenericRequest(m) == [tag |-> "GenericRequest", msg |-> m]

ClientRequest(sc, code, msg, data) ==
    [tag |-> "ClientRequest", status_code |-> sc, error_code |-> code,
     error_message |-> msg, error_data |-> data]

ServerRequest(sc, msg) ==
    [tag |-> "ServerRequest", status_code |-> sc, error_message |-> msg]

\* Outcome of response.text().await: the body, or a reqwest error e.
TextOk(body) == [ok |-> TRUE, text |-> body]

TextErr(e) == [ok |-> FALSE, err |-> e]

\* e.to_string() of a reqwest or serde_json error: its message as a String.
to_string(e) == Text(e)

----------------------------------------------------------------------------
(* parse_response                                                          *)

\* Variants of parse_response, each differing from it in one branch.
ParseResponse_RawMessage(status_code, text) ==
    IF ~text.ok THEN GenericRequest(to_string(text.err))
    ELSE IF status_code < 400 THEN OkText(text.text)
    ELSE LET error_data == FromStrErrorData(text.text) IN
         IF status_code >= 400 /\ status_code < 500
         THEN IF error_data.ok
              THEN ClientRequest(status_code, Some(error_data.code),
                                 text.text, Some(Text(error_data.data)))
              ELSE ClientRequest(status_code, None, text.text,
                                 Some(to_string(error_data.err)))
         ELSE ServerRequest(status_code, text.text)

ParseResponse_DescriptionAsMessage(status_code, text) ==
    IF ~text.ok THEN GenericRequest(to_string(text.err))
    ELSE IF status_code < 400 THEN OkText(text.text)
    ELSE LET error_data == FromStrErrorData(text.text) IN
         IF status_code >= 400 /\ status_code < 500
         THEN IF error_data.ok
              THEN ClientRequest(status_code, Some(error_data.code),
                                 Text(error_data.msg), Some(Text(error_data.data)))
              ELSE ClientRequest(status_code, None, to_string(error_data.err),
                                 Some(text.text))
         ELSE ServerRequest(status_code, text.text)

ParseResponse_InclusiveRange(status_code, text) ==
    IF ~text.ok THEN GenericRequest(to_string(text.err))
    ELSE IF status_code < 400 THEN OkText(text.text)
    ELSE LET error_data == FromStrErrorData(text.text) IN
         IF status_code >= 400 /\ status_code <= 500
         THEN IF error_data.ok
              THEN ClientRequest(status_code, Some(error_data.code),
                                 Text(error_data.msg), Some(Text(error_data.data)))
              ELSE ClientRequest(status_code, None, text.text,
                                 Some(to_string(error_data.err)))
         ELSE ServerRequest(status_code, text.text)

ParseResponse_SuccessOnly(status_code, text) ==
    IF ~text.ok THEN GenericRequest(to_string(text.err))
    ELSE IF status_code < 300 THEN OkText(text.text)
    ELSE LET error_data == FromStrErrorData(text.text) IN
         IF status_code >= 400 /\ status_code < 500
         THEN IF error_data.ok
              THEN ClientRequest(status_code, Some(error_data.code),
                                 Text(error_data.msg), Some(Text(error_data.data)))
              ELSE ClientRequest(status_code, None, text.text,
                                 Some(to_string(error_data.err)))
         ELSE ServerRequest(status_code, text.text)

ParseResponse_StatusFirst(status_code, text) ==
    IF status_code >= 500
    THEN ServerRequest(status_code, IF text.ok THEN text.text ELSE <<>>)
    ELSE IF ~text.ok THEN GenericRequest(to_string(text.err))
    ELSE IF status_code < 400 THEN OkText(text.text)
    ELSE LET error_data == FromStrErrorData(text.text) IN
         IF error_data.ok
         THEN ClientRequest(status_code, Some(error_data.code),
                            Text(error_data.msg), Some(Text(error_data.data)))
         ELSE ClientRequest(status_code, None, text.text,
                            Some(to_string(error_data.err)))

ParseResponse(status_code, text) ==
    IF ~text.ok THEN GenericRequest(to_string(text.err))
    ELSE IF status_code < 400 THEN OkText(text.text)
    ELSE LET error_data == FromStrErrorData(text.text) IN
         IF status_code >= 400 /\ status_code < 500
         THEN IF error_data.ok
              THEN ClientRequest(status_code, Some(error_data.code),
                                 Text(error_data.msg), Some(Text(error_data.data)))
              ELSE ClientRequest(status_code, None, text.text,
                                 Some(to_string(error_data.err)))
         ELSE ServerRequest(status_code, text.text)

----------------------------------------------------------------------------
(* The responses parse_response is applied to.                             *)

\* HTTP status codes across every class, with the edges of 4xx and 5xx.
Statuses == {100, 200, 302, 399, 400, 422, 499, 500, 503, 599}

\* Messages of the errors the transport (reqwest) reports.
TransportErrors == {"operation timed out", "connection reset by peer"}

\* A member whose value is one lexeme, and one whose value is a text.
Member(k, v) == <<Str(k), Colon, v>>

MemberOf(k, text) == <<Str(k), Colon>> \o text

RECURSIVE JoinComma(_)

JoinComma(ms) ==
    IF Len(ms) = 0 THEN <<>>
    ELSE IF Len(ms) = 1 THEN ms[1]
    ELSE ms[1] \o <<Comma>> \o JoinComma(Tail(ms))

Obj(ms) == <<LBrace>> \o JoinComma(ms) \o <<RBrace>>

Arr(es) == <<LBrack>> \o JoinComma(es) \o <<RBrack>>

\* The error values a server can put on the wire.
ErrorDatas == [data : {"x", ""}, code : {0, 12, U16Max}, msg : {"bad nonce"}]

Layouts == {"data,code,msg", "code,msg,data", "msg,data,code",
            "unknown keys", "spaced", "array"}

\* The JSON texts of an error value: every one of them carries exactly the
\* three fields, each once and of its declared type.
RenderErrorData(e, layout) ==
    LET d == Member("data", Str(e.data))
        c == Member("code", Num(e.code))
        m == Member("msg", Str(e.msg))
    IN  CASE layout = "data,code,msg" -> Obj(<<d, c, m>>)
          [] layout = "code,msg,data" -> Obj(<<c, m, d>>)
          [] layout = "msg,data,code" -> Obj(<<m, d, c>>)
          [] layout = "unknown keys" ->
                Obj(<<Member("hint", Lit("null")), c,
                      MemberOf("ctx", Obj(<<MemberOf("code", Arr(<<<<Num(1)>>, <<Str("a")>>>>))>>)),
                      m, d>>)
          [] layout = "spaced" ->
                <<Ws, LBrace, Ws, Str("code"), Colon, Ws, Num(e.code), Comma, Ws,
                  Str("msg"), Ws, Colon, Str(e.msg), Comma, Str("data"), Colon,
                  Str(e.data), Ws, RBrace, Ws>>
          [] layout = "array" -> Arr(<<<<Str(e.data)>>, <<Num(e.code)>>, <<Str(e.msg)>>>>)

StructuredBodies == {RenderErrorData(e, l) : e \in ErrorDatas, l \in Layouts}

\* Bodies that are no structured error: not JSON, JSON of another shape, a
\* field missing, repeated or of the wrong type, or text after the value.
MalformedBodies ==
    LET d == Member("data", Str("x"))
        c == Member("code", Num(12))
        m == Member("msg", Str("bad nonce"))
        good == Obj(<<c, m, d>>)
    IN  { <<>>,
          Text("upstream down"),
          <<Str("upstream down")>>,
          <<Lit("null")>>,
          <<Num(12)>>,
          <<Ws>>,
          Obj(<<>>),
          Obj(<<c, m>>),
          Obj(<<m, d>>),
          Obj(<<c, d>>),
          Obj(<<Member("code", Str("12")), m, d>>),
          Obj(<<Member("code", Lit("-1")), m, d>>),
          Obj(<<Member("code", Lit("12.5")), m, d>>),
          Obj(<<Member("code", Num(U16Max + 1)), m, d>>),
          Obj(<<c, Member("msg", Num(5)), d>>),
          Obj(<<c, m, Member("data", Lit("null"))>>),
          Obj(<<c, m, MemberOf("data", Obj(<<Member("x", Num(1))>>))>>),
          Obj(<<c, m, d, c>>),
          Obj(<<d, c, m, Member("data", Str("y"))>>),
          Obj(<<Member("Code", Num(12)), m, d>>),
          Obj(<<c, m, d, MemberOf("hint", Text("oops"))>>),
          Obj(<<Member("status", Str("err")), Member("response", Str("bad nonce"))>>),
          SubSeq(good, 1, Len(good) - 1),
          SubSeq(good, 1, 3),
          good \o Text("trailing"),
          good \o good,
          <<LBrace>> \o JoinComma(<<c, m, d>>) \o <<Comma, RBrace>>,
          <<LBrace, Num(1), Colon, Num(12), RBrace>>,
          <<LBrace, Str("code"), Num(12), RBrace>>,
          <<LBrace>> \o c \o m \o d \o <<RBrace>>,
          Arr(<<>>),
          Arr(<<<<Str("x")>>, <<Num(12)>>>>),
          Arr(<<<<Num(12)>>, <<Str("bad nonce")>>, <<Str("x")>>>>),
          Arr(<<<<Str("x")>>, <<Num(12)>>, <<Str("bad nonce")>>, <<Lit("null")>>>>),
          Arr(<<<<Str("x")>>, <<Num(U16Max + 1)>>, <<Str("bad nonce")>>>>),
          Arr(<<good>>) }

ErrorBodies == StructuredBodies \cup MalformedBodies

TextResults ==
    {TextOk(b) : b \in ErrorBodies} \cup {TextErr(e) : e \in TransportErrors}

----------------------------------------------------------------------------
(* HttpClient::post, called by concurrent tasks that share the client.     *)

\* The tasks that submit concurrently.
NumTasks == 2

Tasks == 1..NumTasks

\* The responses a server gives to a post.
PostStatuses == {200, 399, 400, 499, 500}

PostBodies ==
    { Text("upstream down"),
      RenderErrorData([data |-> "x", code |-> 12, msg |-> "bad nonce"], "code,msg,data"),
      Obj(<<Member("status", Str("ok"))>>) }

NoResponse == [status |-> 0, body |-> <<>>]

NoFailure == [stage |-> "none", e |-> "", status |-> 0]

Failure(stage, e, status) == [stage |-> stage, e |-> e, status |-> status]

\* The variant that writes the lines whatever the flag.
Perf_Always(flag, lines) == lines

\* The line a finished stage writes to stderr when profiling is on.
Perf(flag, lines) == IF flag THEN lines ELSE <<>>

InitPost ==
    /\ HL_PERF_PROFILE \in BOOLEAN
    /\ pc = [t \in Tasks |-> "idle"]
    /\ perf_profile = [t \in Tasks |-> FALSE]
    /\ executes = [t \in Tasks |-> 0]
    /\ parses = [t \in Tasks |-> 0]
    /\ response = [t \in Tasks |-> NoResponse]
    /\ perf_log = [t \in Tasks |-> <<>>]
    /\ result = [t \in Tasks |-> NotYet]
    /\ failure = [t \in Tasks |-> NoFailure]

\* post is entered: the environment is read once.
PostCall(t) ==
    /\ pc[t] = "idle"
    /\ perf_profile' = [perf_profile EXCEPT ![t] = HL_PERF_PROFILE]
    /\ pc' = [pc EXCEPT ![t] = "build"]
    /\ UNCHANGED <<HL_PERF_PROFILE, executes, parses, response, perf_log,
                   result, failure>>
    /\ UNCHANGED <<pureVars, nonceVars, netVars, digestVars, submitVars>>

\* Step 1: the request is built.
BuildOk(t) ==
    /\ pc[t] = "build"
    /\ perf_log' = [perf_log EXCEPT
                       ![t] = @ \o Perf(perf_profile[t], <<"HTTP Step 1 - Build request">>)]
    /\ pc' = [pc EXCEPT ![t] = "execute"]
    /\ UNCHANGED <<HL_PERF_PROFILE, perf_profile, executes, parses, response,
                   result, failure>>
    /\ UNCHANGED <<pureVars, nonceVars, netVars, digestVars, submitVars>>

\* Variants of the failing build: one goes on to execute the request, one
\* writes the Step 1 line before it returns.
BuildErr_Swallow(t) ==
    /\ pc[t] = "build"
    /\ \E e \in TransportErrors :
          /\ result' = [result EXCEPT ![t] = GenericRequest(to_string(e))]
          /\ failure' = [failure EXCEPT ![t] = Failure("build", e, 0)]
    /\ pc' = [pc EXCEPT ![t] = "execute"]
    /\ UNCHANGED <<HL_PERF_PROFILE, perf_profile, executes, parses, response,
                   perf_log>>
    /\ UNCHANGED <<pureVars, nonceVars, netVars, digestVars, submitVars>>

BuildErr_Logged(t) ==
    /\ pc[t] = "build"
    /\ \E e \in TransportErrors :
          /\ result' = [result EXCEPT ![t] = GenericRequest(to_string(e))]
          /\ failure' = [failure EXCEPT ![t] = Failure("build", e, 0)]
    /\ perf_log' = [perf_log EXCEPT
                       ![t] = @ \o Perf(perf_profile[t], <<"HTTP Step 1 - Build request">>)]
    /\ pc' = [pc EXCEPT ![t] = "returned"]
    /\ UNCHANGED <<HL_PERF_PROFILE, perf_profile, executes, parses, response>>
    /\ UNCHANGED <<pureVars, nonceVars, netVars, digestVars, submitVars>>

\* Step 1 fails: build()'s error is mapped and returned by the ? operator.
BuildErr(t) ==
    /\ pc[t] = "build"
    /\ \E e \in TransportErrors :
          /\ result' = [result EXCEPT ![t] = GenericRequest(to_string(e))]
          /\ failure' = [failure EXCEPT ![t] = Failure("build", e, 0)]
    /\ pc' = [pc EXCEPT ![t] = "returned"]
    /\ UNCHANGED <<HL_PERF_PROFILE, perf_profile, executes, parses, response,
                   perf_log>>
    /\ UNCHANGED <<pureVars, nonceVars, netVars, digestVars, submitVars>>

\* Step 2: the request is executed and a response arrives.
ExecuteOk(t) ==
    /\ pc[t] = "execute"
    /\ executes' = [executes EXCEPT ![t] = @ + 1]
    /\ \E st \in PostStatuses, b \in PostBodies :
          response' = [response EXCEPT ![t] = [status |-> st, body |-> b]]
    /\ perf_log' = [perf_log EXCEPT
                       ![t] = @ \o Perf(perf_profile[t],
                                        <<"HTTP Step 2 - Execute (network + server)">>)]
    /\ pc' = [pc EXCEPT ![t] = "parse"]
    /\ UNCHANGED <<HL_PERF_PROFILE, perf_profile, parses, result, failure>>
    /\ UNCHANGED <<pureVars, nonceVars, netVars, digestVars, submitVars>>

\* The variant of the failing execute that sends the request again.
ExecuteErr_Retry(t) ==
    /\ pc[t] = "execute"
    /\ executes[t] < 3
    /\ executes' = [executes EXCEPT ![t] = @ + 1]
    /\ \E e \in TransportErrors :
          /\ result' = [result EXCEPT ![t] = GenericRequest(to_string(e))]
          /\ failure' = [failure EXCEPT ![t] = Failure("execute", e, 0)]
    /\ pc' = [pc EXCEPT ![t] = "execute"]
    /\ UNCHANGED <<HL_PERF_PROFILE, perf_profile, parses, response, perf_log>>
    /\ UNCHANGED <<pureVars, nonceVars, netVars, digestVars, submitVars>>

\* Step 2 fails: execute()'s error is mapped and returned by the ? operator.
ExecuteErr(t) ==
    /\ pc[t] = "execute"
    /\ executes' = [executes EXCEPT ![t] = @ + 1]
    /\ \E e \in TransportErrors :
          /\ result' = [result EXCEPT ![t] = GenericRequest(to_string(e))]
          /\ failure' = [failure EXCEPT ![t] = Failure("execute", e, 0)]
    /\ pc' = [pc EXCEPT ![t] = "returned"]
    /\ UNCHANGED <<HL_PERF_PROFILE, perf_profile, parses, response, perf_log>>
    /\ UNCHANGED <<pureVars, nonceVars, netVars, digestVars, submitVars>>

\* Step 3: parse_response consumes the response; reading the body may fail.
\* Its result, error or not, is returned after the Step 3 and total lines.
ParseStep(t) ==
    /\ pc[t] = "parse"
    /\ parses' = [parses EXCEPT ![t] = @ + 1]
    /\ \E text \in {TextOk(response[t].body)} \cup {TextErr(e) : e \in TransportErrors} :
          /\ result' = [result EXCEPT ![t] = ParseResponse(response[t].status, text)]
          /\ failure' = [failure EXCEPT
                            ![t] = IF text.ok THEN @
                                   ELSE Failure("read", text.err, response[t].status)]
    /\ response' = [response EXCEPT ![t] = NoResponse]
    /\ perf_log' = [perf_log EXCEPT
                       ![t] = @ \o Perf(perf_profile[t],
                                        <<"HTTP Step 3 - Parse response",
                                          "HTTP total time">>)]
    /\ pc' = [pc EXCEPT ![t] = "returned"]
    /\ UNCHANGED <<HL_PERF_PROFILE, perf_profile, executes>>
    /\ UNCHANGED <<pureVars, nonceVars, netVars, digestVars, submitVars>>

\* The caller has taken the result; the task may call post again.
PostReturn(t) ==
    /\ pc[t] = "returned"
    /\ pc' = [pc EXCEPT ![t] = "idle"]
    /\ perf_profile' = [perf_profile EXCEPT ![t] = FALSE]
    /\ executes' = [executes EXCEPT ![t] = 0]
    /\ parses' = [parses EXCEPT ![t] = 0]
    /\ perf_log' = [perf_log EXCEPT ![t] = <<>>]
    /\ result' = [result EXCEPT ![t] = NotYet]
    /\ failure' = [failure EXCEPT ![t] = NoFailure]
    /\ UNCHANGED <<HL_PERF_PROFILE, response>>
    /\ UNCHANGED <<pureVars, nonceVars, netVars, digestVars, submitVars>>

----------------------------------------------------------------------------
(* next_nonce, called by concurrent tasks: one process-wide generator.     *)

\* The calls of next_nonce in a run, and the latest wall-clock reading.
MaxIssued == 3

MaxNow == 3

\* The variant without the safeguard: the wall clock as it reads.
NextNonceValue_ClockOnly(last, now) == now

\* The nonce after last at wall-clock time now: the clock if it is ahead of
\* every nonce issued, else the successor of the last one.
NextNonceValue(last, now) == IF now > last THEN now ELSE last + 1

NoCall == [start |-> 0, nonce |-> 0]

InitNonce ==
    /\ CUR_NONCE = 0
    /\ now_ms \in 1..MaxNow
    /\ tick = 0
    /\ npc = [t \in Tasks |-> "idle"]
    /\ ncall = [t \in Tasks |-> NoCall]
    /\ issued = {}

InFlight == {t \in Tasks : npc[t] # "idle"}

\* A task enters next_nonce.
NonceCall(t) ==
    /\ npc[t] = "idle"
    /\ Cardinality(issued) + Cardinality(InFlight) < MaxIssued
    /\ npc' = [npc EXCEPT ![t] = "called"]
    /\ ncall' = [ncall EXCEPT ![t] = [start |-> tick + 1, nonce |-> 0]]
    /\ tick' = tick + 1
    /\ UNCHANGED <<CUR_NONCE, now_ms, issued>>
    /\ UNCHANGED <<pureVars, postVars, netVars, digestVars, submitVars>>

\* The generator reads the clock and advances its state in one atomic step.
NonceAdvance(t) ==
    /\ npc[t] = "called"
    /\ CUR_NONCE' = NextNonceValue(CUR_NONCE, now_ms)
    /\ ncall' = [ncall EXCEPT ![t].nonce = CUR_NONCE']
    /\ npc' = [npc EXCEPT ![t] = "advanced"]
    /\ UNCHANGED <<now_ms, tick, issued>>
    /\ UNCHANGED <<pureVars, postVars, netVars, digestVars, submitVars>>

\* let timestamp = next_nonce(): the call returns its value.
NonceReturn(t) ==
    /\ npc[t] = "advanced"
    /\ issued' = issued \cup {[task |-> t, start |-> ncall[t].start,
                               end |-> tick + 1, nonce |-> ncall[t].nonce]}
    /\ tick' = tick + 1
    /\ npc' = [npc EXCEPT ![t] = "idle"]
    /\ ncall' = [ncall EXCEPT ![t] = NoCall]
    /\ UNCHANGED <<CUR_NONCE, now_ms>>
    /\ UNCHANGED <<pureVars, postVars, netVars, digestVars, submitVars>>

\* The wall clock moves on.
ClockTick ==
    /\ now_ms < MaxNow
    /\ now_ms' = now_ms + 1
    /\ UNCHANGED <<CUR_NONCE, tick, npc, ncall, issued>>
    /\ UNCHANGED <<pureVars, postVars, netVars, digestVars, submitVars>>

\* The wall clock is set back.
ClockRegress ==
    /\ now_ms > 0
    /\ now_ms' \in 0..(now_ms - 1)
    /\ UNCHANGED <<CUR_NONCE, tick, npc, ncall, issued>>
    /\ UNCHANGED <<pureVars, postVars, netVars, digestVars, submitVars>>

InitNonceSpec ==
    /\ in_status = 0
    /\ in_text = TextOk(<<>>)
    /\ out_parse = NotYet
    /\ out_outcome = NotYet
    /\ InitPost
    /\ InitNonce
    /\ InitElsewhere

NextNonce ==
    \/ \E t \in Tasks : NonceCall(t) \/ NonceAdvance(t) \/ NonceReturn(t)
    \/ ClockTick
    \/ ClockRegress

SpecNonce == InitNonceSpec /\ [][NextNonce]_vars

----------------------------------------------------------------------------
(* Bytes.  A Vec<u8> is a sequence of numbers 0..255; in this part of the  *)
(* model a String is the sequence of its UTF-8 bytes, all of them ASCII.   *)

Byte == 0..255

Utf8(s) ==
    CASE s = "type" -> <<116, 121, 112, 101>>
      [] s = "order" -> <<111, 114, 100, 101, 114>>
      [] s = "orders" -> <<111, 114, 100, 101, 114, 115>>
      [] s = "grouping" -> <<103, 114, 111, 117, 112, 105, 110, 103>>
      [] s = "builder" -> <<98, 117, 105, 108, 100, 101, 114>>
      [] s = "na" -> <<110, 97>>
      [] s = "asset" -> <<97, 115, 115, 101, 116>>
      [] s = "is_buy" -> <<105, 115, 95, 98, 117, 121>>
      [] s = "reduce_only" -> <<114, 101, 100, 117, 99, 101, 95, 111, 110, 108, 121>>
      [] s = "limit_px" -> <<108, 105, 109, 105, 116, 95, 112, 120>>
      [] s = "sz" -> <<115, 122>>
      [] s = "cloid" -> <<99, 108, 111, 105, 100>>
      [] s = "order_type" -> <<111, 114, 100, 101, 114, 95, 116, 121, 112, 101>>
      [] s = "limit" -> <<108, 105, 109, 105, 116>>
      [] s = "tif" -> <<116, 105, 102>>
      [] s = "Ioc" -> <<73, 111, 99>>
      [] s = "ETH" -> <<69, 84, 72>>
      [] s = "BTC" -> <<66, 84, 67>>
      [] s = "0x" -> <<48, 120>>

RECURSIVE DecimalDigits(_)
DecimalDigits(n) ==
    IF n < 10 THEN <<48 + n>>
    ELSE DecimalDigits(n \div 10) \o <<48 + (n % 10)>>

RECURSIVE Flatten(_)
Flatten(seqs) ==
    IF seqs = <<>> THEN <<>> ELSE Head(seqs) \o Flatten(Tail(seqs))

(* u64::to_be_bytes: the width lowest bytes of n, the most significant     *)
(* first.                                                                  *)
RECURSIVE to_be_bytes_LowFirst(_, _)
to_be_bytes_LowFirst(n, width) ==
    IF width = 0 THEN <<>>
    ELSE <<n % 256>> \o to_be_bytes_LowFirst(n \div 256, width - 1)

RECURSIVE to_be_bytes(_, _)
to_be_bytes(n, width) ==
    IF width = 0 THEN <<>>
    ELSE to_be_bytes(n \div 256, width - 1) \o <<n % 256>>

----------------------------------------------------------------------------
(* serde_json::Value, the tree both serializers of an action walk.         *)

JNull == [j |-> "null"]

JBool(b) == [j |-> "bool", b |-> b]

JNumber(n) == [j |-> "number", num |-> n]

JString(chars) == [j |-> "string", chars |-> chars]

JArray(items) == [j |-> "array", items |-> items]

JObject(members) == [j |-> "object", members |-> members]

Keys(object) == [i \in 1..Len(object.members) |-> object.members[i][1]]

Get(object, key) ==
    LET i == CHOOSE i \in 1..Len(object.members) : object.members[i][1] = key
    IN object.members[i][2]

(* rmp_serde with named fields: MessagePack, a struct as a map from its    *)
(* field names.                                                            *)
MsgPackUint(n) ==
    IF n < 128 THEN <<n>>
    ELSE IF n < 256 THEN <<204>> \o to_be_bytes(n, 1)
    ELSE IF n < 65536 THEN <<205>> \o to_be_bytes(n, 2)
    ELSE <<206>> \o to_be_bytes(n, 4)

MsgPackStr(chars) ==
    IF Len(chars) < 32 THEN <<160 + Len(chars)>> \o chars
    ELSE <<217, Len(chars)>> \o chars

RECURSIVE MsgPack(_)
MsgPack(value) ==
    CASE value.j = "null" -> <<192>>
      [] value.j = "bool" -> IF value.b THEN <<195>> ELSE <<194>>
      [] value.j = "number" -> MsgPackUint(value.num)
      [] value.j = "string" -> MsgPackStr(value.chars)
      [] value.j = "array" ->
            <<144 + Len(value.items)>>
            \o Flatten([i \in 1..Len(value.items) |-> MsgPack(value.items[i])])
      [] value.j = "object" ->
            <<128 + Len(value.members)>>
            \o Flatten([i \in 1..Len(value.members) |->
                           MsgPackStr(Utf8(value.members[i][1]))
                           \o MsgPack(value.members[i][2])])

----------------------------------------------------------------------------
(* The order of a round and the action built from it.  An f64 is modelled  *)
(* by its value in ten-thousandths: 0.01 is 100, 3150.0 is 31500000.       *)

round_to_decimals(value, decimals) ==
    IF decimals >= 4 THEN value
    ELSE LET factor == 10 ^ (4 - decimals)
         IN ((value + (factor \div 2)) \div factor) * factor

BuildOrder(symbol, px, decimals) ==
    [asset |-> symbol, is_buy |-> TRUE, reduce_only |-> FALSE,
     limit_px |-> px, sz |-> round_to_decimals(100, decimals),
     cloid |-> None, order_type |-> [limit |-> [tif |-> "Ioc"]]]

RECURSIVE TrimZeros(_)
TrimZeros(digits) ==
    IF digits # <<>> /\ digits[Len(digits)] = 48
    THEN TrimZeros(SubSeq(digits, 1, Len(digits) - 1))
    ELSE digits

(* The decimal string of an f64, without trailing zeros.                   *)
FloatText(x) ==
    LET whole == DecimalDigits(x \div 10000)
        part == x % 10000
        frac == <<48 + (part \div 1000), 48 + ((part \div 100) % 10),
                  48 + ((part \div 10) % 10), 48 + (part % 10)>>
    IN IF part = 0 THEN whole ELSE whole \o <<46>> \o TrimZeros(frac)

SubmitOk(x) == [ok |-> TRUE, val |-> x]

SubmitErr(stage, e) == [ok |-> FALSE, stage |-> stage, err |-> e]

(* ClientOrderRequest::convert: the coin's name becomes its asset index,   *)
(* prices and sizes become decimal strings.                                *)
Convert(o, coins) ==
    IF o.asset \notin DOMAIN coins
    THEN SubmitErr("convert", "asset not found")
    ELSE SubmitOk([asset |-> coins[o.asset], is_buy |-> o.is_buy,
                   reduce_only |-> o.reduce_only,
                   limit_px |-> FloatText(o.limit_px), sz |-> FloatText(o.sz),
                   cloid |-> o.cloid, order_type |-> o.order_type])

BulkOrder(transformed) ==
    [orders |-> <<transformed>>, grouping |-> "na", builder |-> None]

(* What the Serialize implementation of the action hands to a serializer.  *)
OrderValue(o) ==
    JObject(<< <<"asset", JNumber(o.asset)>>,
               <<"is_buy", JBool(o.is_buy)>>,
               <<"limit_px", JString(o.limit_px)>>,
               <<"sz", JString(o.sz)>>,
               <<"reduce_only", JBool(o.reduce_only)>>,
               <<"order_type",
                 JObject(<< <<"limit",
                              JObject(<< <<"tif",
                                           JString(Utf8(o.order_type.limit.tif))
                                         >> >>)>> >>)>>,
               <<"cloid", JNull>> >>)

ActionValue(a) ==
    JObject(<< <<"type", JString(Utf8("order"))>>,
               <<"orders", JArray([i \in 1..Len(a.orders) |->
                                      OrderValue(a.orders[i])])>>,
               <<"grouping", JString(Utf8(a.grouping))>>,
               <<"builder", JNull>> >>)

to_vec_named(a) == MsgPack(ActionValue(a))

to_value(a) == ActionValue(a)

(* The inputs of a run: the exchange's mid price times 1.05, rounded; the  *)
(* size decimals and the asset indexes of the exchange's metadata.         *)
Prices == {29870000, 31500000}

SzDecimals == {1, 4}

CoinMaps == {[BTC |-> 0, ETH |-> 1], [BTC |-> 0, ETH |-> 200], [BTC |-> 0]}

Actions ==
    {BulkOrder(Convert(BuildOrder("ETH", px, d), coins).val) :
        px \in Prices, d \in SzDecimals,
        coins \in {c \in CoinMaps : "ETH" \in DOMAIN c}}

----------------------------------------------------------------------------
(* The digest stage: the signing preimage and its hash.                    *)

Preimage(encoded, nonce) == encoded \o to_be_bytes(nonce, 8) \o <<0>>

(* keccak256 is not computed.  A 32-byte value that depends on every byte  *)
(* of the input, on its position and on the length stands for the hash.    *)
RECURSIVE Absorb(_, _, _, _)
Absorb(input, first, last, lane) ==
    IF first > last THEN lane
    ELSE IF first = last THEN ((input[first] * 7) + (first * 13) + lane) % 256
    ELSE LET mid == (first + last) \div 2
         IN ((Absorb(input, first, mid, lane) * 31)
             + Absorb(input, mid + 1, last, lane)) % 256

keccak256(input) ==
    [lane \in 1..32 |-> (Absorb(input, 1, Len(input), lane) + Len(input)) % 256]

DigestStage(a, nonce) ==
    LET preimage == Preimage(to_vec_named(a), nonce)
    IN [bytes |-> preimage, connection_id |-> keccak256(preimage)]

----------------------------------------------------------------------------
(* The digest stage as a function of (action, nonce), applied repeatedly   *)
(* while the clock moves.                                                  *)

MaxApplies == 2

Nonces == {0, 1, 255, 256, 16909060, 2147483647}

InitDigest ==
    /\ in_status = 0
    /\ in_text = TextOk(<<>>)
    /\ out_parse = NotYet
    /\ out_outcome = NotYet
    /\ InitPost
    /\ InitNonce
    /\ InitNetIdle
    /\ InitSubmitIdle
    /\ in_action \in Actions
    /\ in_nonce \in Nonces
    /\ out_digest = <<>>

ApplyDigest ==
    /\ Len(out_digest) < MaxApplies
    /\ out_digest' = Append(out_digest, DigestStage(in_action, in_nonce))
    /\ UNCHANGED <<in_action, in_nonce>>
    /\ UNCHANGED <<pureVars, postVars, nonceVars, netVars, submitVars>>

NextDigest == ApplyDigest \/ ClockTick

SpecDigest == InitDigest /\ [][NextDigest]_vars

----------------------------------------------------------------------------
(* The signature and the envelope.  A U256 is the sequence of its 64       *)
(* hexadecimal digits, the most significant first.                         *)

U256(low) ==
    [i \in 1..64 |-> IF i <= 64 - Len(low) THEN 0
                     ELSE low[i - (64 - Len(low))]]

Repeat(d, n) == [i \in 1..n |-> d]

Signatures ==
    {[r |-> U256(<<1>>), s |-> U256(Repeat(15, 64)), v |-> FALSE],
     [r |-> U256(<<10, 11, 0, 9>>), s |-> U256(<<>>), v |-> TRUE],
     [r |-> U256(<<13, 14, 10, 13>> \o Repeat(0, 59) \o <<12>>),
      s |-> U256(<<7, 15>> \o Repeat(3, 40)), v |-> FALSE]}

(* {:x}: the digits of the value without leading zeros, in lower case.     *)
LowerHex(x) ==
    LET set == {i \in 1..Len(x) : x[i] # 0}
        first == IF set = {} THEN Len(x)
                 ELSE CHOOSE i \in set : \A k \in set : i <= k
    IN [i \in 1..(Len(x) - first + 1) |->
           LET d == x[first + i - 1] IN IF d < 10 THEN 48 + d ELSE 87 + d]

(* The flag 0 and the width: zeros on the left up to the width.            *)
ZeroPad(chars, width) ==
    IF Len(chars) >= width THEN chars
    ELSE Repeat(48, width - Len(chars)) \o chars

Format0x064x_Unpadded(x) == Utf8("0x") \o LowerHex(x)

Format0x064x(x) == Utf8("0x") \o ZeroPad(LowerHex(x), 64)

serialize_sig(sig) ==
    JObject(<< <<"r", JString(Format0x064x(sig.r))>>,
               <<"s", JString(Format0x064x(sig.s))>>,
               <<"v", JNumber(27 + (IF sig.v THEN 1 ELSE 0))>> >>)

BuildPayload(json, nonce, sig) ==
    JObject(<< <<"action", json>>,
               <<"nonce", JNumber(nonce)>>,
               <<"signature", serialize_sig(sig)>> >>)

----------------------------------------------------------------------------
(* The network.  A URL is the sequence of its base and its path.           *)

get_url(network) ==
    CASE network = "Mainnet" -> "https://api.hyperliquid.xyz"
      [] network = "Testnet" -> "https://api.hyperliquid-testnet.xyz"
      [] network = "Localhost" -> "http://localhost:3001"

HttpClient_is_mainnet_Inverted(client_base_url) ==
    client_base_url # get_url("Mainnet")

HttpClient_is_mainnet(client_base_url) == client_base_url = get_url("Mainnet")

ExchangeUrl == <<"https://api.hyperliquid.xyz", "/exchange">>

----------------------------------------------------------------------------
(* The submission: the rounds of the loop in main, a stage at a time.      *)

ClockReadings == {3, 258, 16909060}

InitSubmit ==
    /\ in_status = 0
    /\ in_text = TextOk(<<>>)
    /\ out_parse = NotYet
    /\ out_outcome = NotYet
    /\ InitPost
    /\ HL_PERF_PROFILE = FALSE
    /\ CUR_NONCE = 0
    /\ now_ms \in ClockReadings
    /\ tick = 0
    /\ npc = [t \in Tasks |-> "idle"]
    /\ ncall = [t \in Tasks |-> NoCall]
    /\ issued = {}
    /\ InitNetIdle
    /\ InitDigestIdle
    /\ base_url = get_url("Mainnet")
    /\ coin_to_asset \in CoinMaps
    /\ buy_px \in Prices
    /\ sz_decimals \in SzDecimals
    /\ spc = "order"
    /\ round = 1
    /\ exited = None
    /\ InitRound

\* A stage runs and hands over to the next one.
Stage(name, next) ==
    /\ spc = name
    /\ spc' = next
    /\ stages' = Append(stages, name)

\* A stage runs and fails: the ? returns its error from main.
Exit(name, e) ==
    /\ spc = name
    /\ spc' = "exited"
    /\ stages' = Append(stages, name)
    /\ exited' = Some(SubmitErr(name, e))

\* Step 1: the order request is built.
OrderStep ==
    /\ Stage("order", "convert")
    /\ order' = Some(BuildOrder("ETH", buy_px, sz_decimals))
    /\ UNCHANGED <<base_url, coin_to_asset, buy_px, sz_decimals, round,
                 exited, transformed_order, action, timestamp, bytes,
                 connection_id, is_mainnet, signature, action_json, payload,
                 sent>>
    /\ UNCHANGED <<pureVars, postVars, nonceVars, netVars, digestVars>>

\* Step 2: order.convert(&exchange.coin_to_asset)?
ConvertOk ==
    /\ Stage("convert", "action")
    /\ Convert(order.v, coin_to_asset).ok
    /\ transformed_order' = Some(Convert(order.v, coin_to_asset).val)
    /\ UNCHANGED <<base_url, coin_to_asset, buy_px, sz_decimals, round,
                 exited, order, action, timestamp, bytes, connection_id,
                 is_mainnet, signature, action_json, payload, sent>>
    /\ UNCHANGED <<pureVars, postVars, nonceVars, netVars, digestVars>>

\* Step 2 fails: main returns the error.
ConvertErr ==
    /\ spc = "convert"
    /\ ~Convert(order.v, coin_to_asset).ok
    /\ Exit("convert", Convert(order.v, coin_to_asset).err)
    /\ UNCHANGED <<base_url, coin_to_asset, buy_px, sz_decimals, round, order,
                 transformed_order, action, timestamp, bytes, connection_id,
                 is_mainnet, signature, action_json, payload, sent>>
    /\ UNCHANGED <<pureVars, postVars, nonceVars, netVars, digestVars>>

\* Step 3: the action is built around the converted order.
ActionStep ==
    /\ Stage("action", "nonce")
    /\ action' = Some(BulkOrder(transformed_order.v))
    /\ UNCHANGED <<base_url, coin_to_asset, buy_px, sz_decimals, round,
                 exited, order, transformed_order, timestamp, bytes,
                 connection_id, is_mainnet, signature, action_json, payload,
                 sent>>
    /\ UNCHANGED <<pureVars, postVars, nonceVars, netVars, digestVars>>

\* Step 4: let timestamp = next_nonce();
NonceStep ==
    /\ Stage("nonce", "digest")
    /\ CUR_NONCE' = NextNonceValue(CUR_NONCE, now_ms)
    /\ timestamp' = Some(CUR_NONCE')
    /\ UNCHANGED <<base_url, coin_to_asset, buy_px, sz_decimals, round,
                 exited, order, transformed_order, action, bytes,
                 connection_id, is_mainnet, signature, action_json, payload,
                 sent>>
    /\ UNCHANGED <<now_ms, tick, npc, ncall, issued>>
    /\ UNCHANGED <<pureVars, postVars, netVars, digestVars>>

\* Step 5: the preimage is built and hashed.
DigestOk ==
    /\ Stage("digest", "sign")
    /\ bytes' = Some(DigestStage(action.v, timestamp.v).bytes)
    /\ connection_id' = Some(DigestStage(action.v, timestamp.v).connection_id)
    /\ UNCHANGED <<base_url, coin_to_asset, buy_px, sz_decimals, round,
                 exited, order, transformed_order, action, timestamp,
                 is_mainnet, signature, action_json, payload, sent>>
    /\ UNCHANGED <<pureVars, postVars, nonceVars, netVars, digestVars>>

\* Step 5 fails and the round goes on to sign.
DigestErr_Skip ==
    /\ Stage("digest", "sign")
    /\ UNCHANGED <<base_url, coin_to_asset, buy_px, sz_decimals, round,
                 exited, order, transformed_order, action, timestamp, bytes,
                 connection_id, is_mainnet, signature, action_json, payload,
                 sent>>
    /\ UNCHANGED <<pureVars, postVars, nonceVars, netVars, digestVars>>

\* Step 5 fails: to_vec_named returned an error.
DigestErr ==
    /\ Exit("digest", "Failed to serialize")
    /\ UNCHANGED <<base_url, coin_to_asset, buy_px, sz_decimals, round, order,
                 transformed_order, action, timestamp, bytes, connection_id,
                 is_mainnet, signature, action_json, payload, sent>>
    /\ UNCHANGED <<pureVars, postVars, nonceVars, netVars, digestVars>>

\* Step 6: the digest is signed for the client's network.
SignOk ==
    /\ Stage("sign", "json")
    /\ is_mainnet' = Some(HttpClient_is_mainnet(base_url))
    /\ \E sig \in Signatures : signature' = Some(sig)
    /\ UNCHANGED <<base_url, coin_to_asset, buy_px, sz_decimals, round,
                 exited, order, transformed_order, action, timestamp, bytes,
                 connection_id, action_json, payload, sent>>
    /\ UNCHANGED <<pureVars, postVars, nonceVars, netVars, digestVars>>

\* Step 6 fails: sign_l1_action returned an error.
SignErr ==
    /\ Exit("sign", "signature failure")
    /\ is_mainnet' = Some(HttpClient_is_mainnet(base_url))
    /\ UNCHANGED <<base_url, coin_to_asset, buy_px, sz_decimals, round, order,
                 transformed_order, action, timestamp, bytes, connection_id,
                 signature, action_json, payload, sent>>
    /\ UNCHANGED <<pureVars, postVars, nonceVars, netVars, digestVars>>

\* Step 7: serde_json::to_value(&action)
JsonOk ==
    /\ Stage("json", "envelope")
    /\ action_json' = Some(to_value(action.v))
    /\ UNCHANGED <<base_url, coin_to_asset, buy_px, sz_decimals, round,
                 exited, order, transformed_order, action, timestamp, bytes,
                 connection_id, is_mainnet, signature, payload, sent>>
    /\ UNCHANGED <<pureVars, postVars, nonceVars, netVars, digestVars>>

\* Step 7 fails.
JsonErr ==
    /\ Exit("json", "Failed to serialize to JSON")
    /\ UNCHANGED <<base_url, coin_to_asset, buy_px, sz_decimals, round, order,
                 transformed_order, action, timestamp, bytes, connection_id,
                 is_mainnet, signature, action_json, payload, sent>>
    /\ UNCHANGED <<pureVars, postVars, nonceVars, netVars, digestVars>>

\* Step 8 with the clock read again for the nonce field.
EnvelopeStep_ClockNonce ==
    /\ Stage("envelope", "send")
    /\ payload' = Some(BuildPayload(action_json.v, now_ms, signature.v))
    /\ UNCHANGED <<base_url, coin_to_asset, buy_px, sz_decimals, round,
                 exited, order, transformed_order, action, timestamp, bytes,
                 connection_id, is_mainnet, signature, action_json, sent>>
    /\ UNCHANGED <<pureVars, postVars, nonceVars, netVars, digestVars>>

\* Step 8: the payload is assembled.
EnvelopeStep ==
    /\ Stage("envelope", "send")
    /\ payload' = Some(BuildPayload(action_json.v, timestamp.v, signature.v))
    /\ UNCHANGED <<base_url, coin_to_asset, buy_px, sz_decimals, round,
                 exited, order, transformed_order, action, timestamp, bytes,
                 connection_id, is_mainnet, signature, action_json, sent>>
    /\ UNCHANGED <<pureVars, postVars, nonceVars, netVars, digestVars>>

\* Step 9 fails before anything is sent: serde_json::to_string(&payload)?
PayloadStrErr ==
    /\ Exit("send", "serialization failure")
    /\ UNCHANGED <<base_url, coin_to_asset, buy_px, sz_decimals, round, order,
                 transformed_order, action, timestamp, bytes, connection_id,
                 is_mainnet, signature, action_json, payload, sent>>
    /\ UNCHANGED <<pureVars, postVars, nonceVars, netVars, digestVars>>

\* Step 9: the request is sent and a response arrives.
SendOk ==
    /\ Stage("send", "read")
    /\ sent' = Append(sent, [url |-> ExchangeUrl, body |-> payload.v])
    /\ UNCHANGED <<base_url, coin_to_asset, buy_px, sz_decimals, round,
                 exited, order, transformed_order, action, timestamp, bytes,
                 connection_id, is_mainnet, signature, action_json, payload>>
    /\ UNCHANGED <<pureVars, postVars, nonceVars, netVars, digestVars>>

\* Step 9 fails: send().await returned an error.
SendErr ==
    /\ \E e \in TransportErrors : Exit("send", e)
    /\ sent' = Append(sent, [url |-> ExchangeUrl, body |-> payload.v])
    /\ UNCHANGED <<base_url, coin_to_asset, buy_px, sz_decimals, round, order,
                 transformed_order, action, timestamp, bytes, connection_id,
                 is_mainnet, signature, action_json, payload>>
    /\ UNCHANGED <<pureVars, postVars, nonceVars, netVars, digestVars>>

\* The body of the response is read.
ReadOk ==
    /\ spc = "read"
    /\ spc' = "sleep"
    /\ UNCHANGED <<base_url, coin_to_asset, buy_px, sz_decimals, round,
                 exited, order, transformed_order, action, timestamp, bytes,
                 connection_id, is_mainnet, signature, action_json, payload,
                 sent, stages>>
    /\ UNCHANGED <<pureVars, postVars, nonceVars, netVars, digestVars>>

\* Reading the body fails: res.text().await?
ReadErr ==
    /\ spc = "read"
    /\ spc' = "exited"
    /\ \E e \in TransportErrors : exited' = Some(SubmitErr("read", e))
    /\ UNCHANGED <<base_url, coin_to_asset, buy_px, sz_decimals, round, order,
                 transformed_order, action, timestamp, bytes, connection_id,
                 is_mainnet, signature, action_json, payload, sent, stages>>
    /\ UNCHANGED <<pureVars, postVars, nonceVars, netVars, digestVars>>

\* The round ends: its bindings go out of scope; the loop goes on to the
\* next round or ends after the last.
RoundEnd ==
    /\ spc = "sleep"
    /\ spc' = IF round < Rounds THEN "order" ELSE "done"
    /\ round' = IF round < Rounds THEN round + 1 ELSE round
    /\ order' = None
    /\ transformed_order' = None
    /\ action' = None
    /\ timestamp' = None
    /\ bytes' = None
    /\ connection_id' = None
    /\ is_mainnet' = None
    /\ signature' = None
    /\ action_json' = None
    /\ payload' = None
    /\ sent' = <<>>
    /\ stages' = <<>>
    /\ UNCHANGED <<base_url, coin_to_asset, buy_px, sz_decimals, exited>>
    /\ UNCHANGED <<pureVars, postVars, nonceVars, netVars, digestVars>>

\* The wall clock reads something else.
SubmitClock ==
    /\ now_ms' \in ClockReadings \ {now_ms}
    /\ UNCHANGED <<CUR_NONCE, tick, npc, ncall, issued>>
    /\ UNCHANGED <<pureVars, postVars, netVars, digestVars, submitVars>>

NextSubmit ==
    \/ OrderStep
    \/ ConvertOk
    \/ ConvertErr
    \/ ActionStep
    \/ NonceStep
    \/ DigestOk
    \/ DigestErr
    \/ SignOk
    \/ SignErr
    \/ JsonOk
    \/ JsonErr
    \/ EnvelopeStep
    \/ PayloadStrErr
    \/ SendOk
    \/ SendErr
    \/ ReadOk
    \/ ReadErr
    \/ RoundEnd
    \/ SubmitClock

SpecSubmit == InitSubmit /\ [][NextSubmit]_vars

----------------------------------------------------------------------------
(* Calls of post side by side: every call of a run meets the same          *)
(* transport behaviour, while HL_PERF_PROFILE may be set for one call and  *)
(* unset for another.  The behaviour says how build and execute end, what  *)
(* the response is, how reading its body ends, and whether the client was  *)
(* built with a timeout; a silent endpoint never responds.                 *)

Behaviour(build, execute, status, body, read, timeout) ==
    [build |-> build, execute |-> execute, status |-> status, body |-> body,
     read |-> read, timeout |-> timeout]

Nets ==
    {Behaviour(e, "responds", 200, <<>>, "ok", TRUE) : e \in TransportErrors}
    \cup {Behaviour("ok", e, 200, <<>>, "ok", TRUE) : e \in TransportErrors}
    \cup {Behaviour("ok", "silent", 200, <<>>, "ok", timeout) :
             timeout \in BOOLEAN}
    \cup {Behaviour("ok", "responds", st, b, read, TRUE) :
             st \in PostStatuses, b \in PostBodies,
             read \in {"ok"} \cup TransportErrors}

InitNet ==
    /\ in_status = 0
    /\ in_text = TextOk(<<>>)
    /\ out_parse = NotYet
    /\ out_outcome = NotYet
    /\ InitPost
    /\ InitNonce
    /\ now_ms = 1
    /\ InitDigestIdle
    /\ InitSubmitIdle
    /\ net \in Nets

NetBuildOk(t) ==
    /\ net.build = "ok"
    /\ BuildOk(t)

NetBuildErr(t) ==
    /\ net.build # "ok"
    /\ BuildErr(t)
    /\ failure'[t].e = net.build

NetExecuteOk(t) ==
    /\ net.execute = "responds"
    /\ ExecuteOk(t)
    /\ response'[t] = [status |-> net.status, body |-> net.body]

NetExecuteErr(t) ==
    /\ net.execute \in TransportErrors
    /\ ExecuteErr(t)
    /\ failure'[t].e = net.execute

\* The endpoint is silent and the timer never goes off.
Timeout_Unarmed(t) ==
    /\ net.execute = "silent"
    /\ ~net.timeout
    /\ ExecuteErr(t)
    /\ failure'[t].e = "operation timed out"

\* The endpoint is silent and the client was built with a timeout: the
\* timer goes off and execute ends with the timeout error.
Timeout(t) ==
    /\ net.execute = "silent"
    /\ net.timeout
    /\ ExecuteErr(t)
    /\ failure'[t].e = "operation timed out"

NetParse(t) ==
    /\ ParseStep(t)
    /\ failure'[t].e = IF net.read = "ok" THEN "" ELSE net.read

\* The variable is set in, or removed from, the environment of the process.
SetEnv ==
    /\ HL_PERF_PROFILE' = ~HL_PERF_PROFILE
    /\ UNCHANGED <<pc, perf_profile, executes, parses, response, perf_log,
                   result, failure>>
    /\ UNCHANGED <<pureVars, nonceVars, netVars, digestVars, submitVars>>

NextNet ==
    \/ \E t \in Tasks :
          \/ PostCall(t)
          \/ NetBuildOk(t)
          \/ NetBuildErr(t)
          \/ NetExecuteOk(t)
          \/ NetExecuteErr(t)
          \/ Timeout(t)
          \/ NetParse(t)
          \/ PostReturn(t)
    \/ SetEnv

SpecNet == InitNet /\ [][NextNet]_vars

\* The timer of a timeout is the runtime's: once armed it goes off.
SpecNetFair == SpecNet /\ \A t \in Tasks : WF_vars(Timeout(t))

----------------------------------------------------------------------------
(* The program: tasks calling HttpClient::post.                            *)

Init ==
    /\ in_status = 0
    /\ in_text = TextOk(<<>>)
    /\ out_parse = NotYet
    /\ out_outcome = NotYet
    /\ InitPost
    /\ InitNonce
    /\ InitElsewhere

Next ==
    \E t \in Tasks :
        \/ PostCall(t)
        \/ BuildOk(t)
        \/ BuildErr(t)
        \/ ExecuteOk(t)
        \/ ExecuteErr(t)
        \/ ParseStep(t)
        \/ PostReturn(t)

Spec == Init /\ [][Next]_vars

----------------------------------------------------------------------------
(* parse_response applied to every response.                               *)

InitParse ==
    /\ in_status \in Statuses
    /\ in_text \in TextResults
    /\ out_parse = NotYet
    /\ out_outcome = NotYet
    /\ InitPost
    /\ InitNonce
    /\ InitElsewhere

ApplyParseResponse ==
    /\ out_parse = NotYet
    /\ out_parse' = ParseResponse(in_status, in_text)
    /\ UNCHANGED <<in_status, in_text, out_outcome>>
    /\ UNCHANGED <<postVars, nonceVars, netVars, digestVars, submitVars>>

NextParse == ApplyParseResponse

SpecParse == InitParse /\ [][NextParse]_vars

----------------------------------------------------------------------------
(* The order response: Result<ExchangeResponseStatus> and the outcome the  *)
(* submitting code derives from it.                                        *)

\* An ExchangeDataStatus: Filled and Resting carry an order id.
DataStatus(tag, oid) == [tag |-> tag, oid |-> oid]

\* Ok(ExchangeResponseStatus::Ok(data)), data.data = Option<statuses>.
ResOk(data) == [tag |-> "Ok", data |-> data]

\* Ok(ExchangeResponseStatus::Err(e)).
ResErrStatus(e) == [tag |-> "ErrStatus", e |-> e]

\* Err(e), e a crate::Error.
ResErr(e) == [tag |-> "Err", e |-> e]

\* The body was read but is no success payload.
ResUnparsed(raw) == [tag |-> "Unparsed", raw |-> raw]

Filled(oid) == [tag |-> "Filled", oid |-> oid]

Resting(oid) == [tag |-> "Resting", oid |-> oid]

OtherStatus(status) == [tag |-> "OtherStatus", status |-> status]

OtherStatusRaw(raw) == [tag |-> "OtherStatus", raw |-> raw]

NoStatus == [tag |-> "NoStatus"]

ErrorReceipt(e) == [tag |-> "ErrorReceipt", e |-> e]

Exception(e) == [tag |-> "Exception", e |-> e]

\* The variant that reads the last status entry instead of the first.
MatchOrderResult_Last(res) ==
    IF res.tag = "Ok"
    THEN IF res.data.some /\ Len(res.data.v) > 0
         THEN LET status == res.data.v[Len(res.data.v)] IN
              IF status.tag = "filled" THEN Filled(status.oid)
              ELSE IF status.tag = "resting" THEN Resting(status.oid)
              ELSE OtherStatus(status)
         ELSE NoStatus
    ELSE IF res.tag = "ErrStatus" THEN ErrorReceipt(res.e)
    ELSE Exception(res.e)

\* match res { Ok(ExchangeResponseStatus::Ok(data)) => statuses.first() ... }
MatchOrderResult(res) ==
    IF res.tag = "Ok"
    THEN IF res.data.some /\ Len(res.data.v) > 0
         THEN LET status == res.data.v[1] IN
              IF status.tag = "filled" THEN Filled(status.oid)
              ELSE IF status.tag = "resting" THEN Resting(status.oid)
              ELSE OtherStatus(status)
         ELSE NoStatus
    ELSE IF res.tag = "ErrStatus" THEN ErrorReceipt(res.e)
    ELSE Exception(res.e)

\* The members of object value obj whose key is key.
Members(obj, key) == SelectSeq(obj.m, LAMBDA x : x.key = key)

\* One per-order status entry: a one-member object whose key is the tag
\* (filled and resting carry {"oid": n}), or a bare string tag.
DecodeStatus(v) ==
    IF v.k = "str" THEN [ok |-> TRUE, val |-> DataStatus(v.s, 0)]
    ELSE IF v.k # "obj" \/ Len(v.m) # 1 THEN [ok |-> FALSE]
    ELSE LET tag == v.m[1].key
             body == v.m[1].val
         IN  IF tag \in {"filled", "resting"}
             THEN IF body.k = "obj" /\ Len(Members(body, "oid")) = 1
                     /\ Members(body, "oid")[1].val.k = "num"
                  THEN [ok |-> TRUE,
                        val |-> DataStatus(tag, Members(body, "oid")[1].val.n)]
                  ELSE [ok |-> FALSE]
             ELSE [ok |-> TRUE, val |-> DataStatus(tag, 0)]

RECURSIVE DecodeStatuses(_)

DecodeStatuses(es) ==
    IF Len(es) = 0 THEN [ok |-> TRUE, val |-> <<>>]
    ELSE LET h == DecodeStatus(es[1])
             t == DecodeStatuses(Tail(es))
         IN  IF h.ok /\ t.ok THEN [ok |-> TRUE, val |-> <<h.val>> \o t.val]
             ELSE [ok |-> FALSE]

\* The success payload {"status": "ok", "data": {"statuses": [...]}}; data
\* may be absent.
DecodeSuccess(text) ==
    LET s == Lex(text)
        r == ParseValue(s, 1)
    IN  IF ~r.ok \/ r.next # Len(s) + 1 \/ r.val.k # "obj" THEN [ok |-> FALSE]
        ELSE LET st == Members(r.val, "status")
                 da == Members(r.val, "data")
             IN  IF Len(st) # 1 \/ Len(da) > 1 THEN [ok |-> FALSE]
                 ELSE IF st[1].val.k # "str" THEN [ok |-> FALSE]
                 ELSE IF st[1].val.s # "ok" THEN [ok |-> FALSE]
                 ELSE IF Len(da) = 0 THEN [ok |-> TRUE, val |-> None]
                 ELSE IF da[1].val.k # "obj" THEN [ok |-> FALSE]
                 ELSE IF Len(Members(da[1].val, "statuses")) # 1 THEN [ok |-> FALSE]
                 ELSE IF Members(da[1].val, "statuses")[1].val.k # "arr"
                      THEN [ok |-> FALSE]
                 ELSE LET d == DecodeStatuses(Members(da[1].val, "statuses")[1].val.e)
                      IN  IF d.ok THEN [ok |-> TRUE, val |-> Some(d.val)]
                          ELSE [ok |-> FALSE]

\* exchange.order(order, None).await, from the response on: the transport
\* result, then the decoded payload.
Order(status_code, text) ==
    LET r == ParseResponse(status_code, text) IN
    IF r.tag # "Ok" THEN ResErr(r)
    ELSE LET d == DecodeSuccess(r.text) IN
         IF d.ok THEN ResOk(d.val) ELSE ResUnparsed(r.text)

\* classify(status, body): the decision table of the response classifier.
Classify(status_code, text) ==
    LET res == Order(status_code, text) IN
    IF res.tag = "Unparsed" THEN OtherStatusRaw(res.raw)
    ELSE MatchOrderResult(res)

----------------------------------------------------------------------------
(* The order responses the classifier is applied to.                       *)

\* The longest list of per-order status entries in a response.
MaxStatuses == 2

StatusEntries ==
    {DataStatus(t, o) : t \in {"filled", "resting"}, o \in {7, 42}}
        \cup {DataStatus("error", 0), DataStatus("waitingForFill", 0)}

RECURSIVE SeqsUpTo(_, _)

SeqsUpTo(S, n) ==
    IF n = 0 THEN {<<>>}
    ELSE LET shorter == SeqsUpTo(S, n - 1) IN
         shorter \cup {Append(q, x) : q \in shorter, x \in S}

StatusLists == SeqsUpTo(StatusEntries, MaxStatuses)

RenderStatus(e) ==
    IF e.tag \in {"filled", "resting"}
    THEN Obj(<<MemberOf(e.tag, Obj(<<Member("oid", Num(e.oid))>>))>>)
    ELSE IF e.tag = "error" THEN Obj(<<Member("error", Str("could not match"))>>)
    ELSE <<Str(e.tag)>>

RenderSuccess(es) ==
    Obj(<<Member("status", Str("ok")),
          MemberOf("data",
                   Obj(<<MemberOf("statuses",
                                  Arr([i \in 1..Len(es) |-> RenderStatus(es[i])]))>>))>>)

SuccessBodies == {RenderSuccess(es) : es \in StatusLists}

\* Bodies that are no success payload.
UnparseableBodies ==
    LET ok == RenderSuccess(<<DataStatus("filled", 42)>>) IN
    { <<>>,
      Text("upstream down"),
      <<Str("ok")>>,
      SubSeq(ok, 1, Len(ok) - 1),
      ok \o Text("trailing"),
      Obj(<<Member("code", Num(12)), Member("msg", Str("bad nonce")),
            Member("data", Str("x"))>>),
      Obj(<<Member("status", Num(1))>>),
      Obj(<<Member("status", Str("ok")), Member("data", Num(1))>>),
      Obj(<<Member("status", Str("ok")),
            MemberOf("data", Obj(<<MemberOf("statuses", Arr(<<<<Num(42)>>>>))>>))>>),
      Obj(<<Member("status", Str("ok")),
            MemberOf("data", Obj(<<MemberOf("statuses",
                Arr(<<Obj(<<MemberOf("filled", Obj(<<Member("oid", Str("42"))>>))>>)>>))>>))>>) }

OrderTexts ==
    {TextOk(b) : b \in SuccessBodies \cup UnparseableBodies}
        \cup {TextErr(e) : e \in TransportErrors}

InitClassify ==
    /\ in_status \in Statuses
    /\ in_text \in OrderTexts
    /\ out_parse = NotYet
    /\ out_outcome = NotYet
    /\ InitPost
    /\ InitNonce
    /\ InitElsewhere

ApplyClassify ==
    /\ out_outcome = NotYet
    /\ out_outcome' = Classify(in_status, in_text)
    /\ UNCHANGED <<in_status, in_text, out_parse>>
    /\ UNCHANGED <<postVars, nonceVars, netVars, digestVars, submitVars>>

NextClassify == ApplyClassify

SpecClassify == InitClassify /\ [][NextClassify]_vars

----------------------------------------------------------------------------
(* Properties of parse_response                                            *)

\* The descriptions serde_json gives of a failed deserialization.
SerdeMessages ==
    {"EOF while parsing a value", "EOF while parsing an object",
     "EOF while parsing a list", "expected value", "expected :",
     "expected , or }", "expected , or ]", "trailing comma",
     "trailing characters", "key must be a string", "duplicate field",
     "missing field data", "missing field code", "missing field msg",
     "invalid type, expected a string", "invalid type, expected u16",
     "invalid value, expected u16", "invalid type, expected struct ErrorData",
     "invalid length 0", "invalid length 1", "invalid length 2"}

\* parse_response has returned for a response whose body was read.
ParsedBody == out_parse # NotYet /\ in_text.ok

\* C1: a 4xx response whose body is the JSON text of an error value with
\* the three fields code, msg and data yields ClientRequest carrying the
\* response status, Some(code), the msg and Some(data) of that value.
C1_StructuredClientError ==
    (ParsedBody /\ in_status \in 400..499) =>
        \A e \in ErrorDatas, l \in Layouts :
            in_text.text = RenderErrorData(e, l) =>
                out_parse = ClientRequest(in_status, Some(e.code), Text(e.msg),
                                          Some(Text(e.data)))

C1_Witness ==
    /\ in_status = 422
    /\ in_text = TextOk(RenderErrorData([data |-> "x", code |-> 12, msg |-> "bad nonce"],
                                        "code,msg,data"))
    /\ out_parse = ClientRequest(422, Some(12), Text("bad nonce"), Some(Text("x")))

\* C2: a 4xx response whose body is not the JSON text of any error value
\* yields ClientRequest carrying the response status, no error code, the raw
\* body as message and Some(description of the parse failure) as data.
C2_UnstructuredClientError ==
    (ParsedBody /\ in_status \in 400..499 /\ in_text.text \notin StructuredBodies) =>
        /\ out_parse.tag = "ClientRequest"
        /\ out_parse.status_code = in_status
        /\ out_parse.error_code = None
        /\ out_parse.error_message = in_text.text
        /\ out_parse.error_data.some
        /\ out_parse.error_data.v \in {Text(d) : d \in SerdeMessages}

C2_Witness ==
    /\ in_status = 400
    /\ in_text = TextOk(Obj(<<Member("code", Num(12)), Member("msg", Str("bad nonce"))>>))
    /\ out_parse.tag = "ClientRequest"
    /\ out_parse.error_code = None
    /\ out_parse.error_data = Some(Text("missing field data"))

\* C3: a response with status >= 500 whose body was read yields
\* ServerRequest carrying the response status and the raw body, whether or
\* not the body is a structured error; no status >= 500 yields ClientRequest
\* and no status in 400..499 yields ServerRequest.
C3_ServerError ==
    /\ (ParsedBody /\ in_status >= 500) =>
            out_parse = ServerRequest(in_status, in_text.text)
    /\ (out_parse # NotYet /\ in_status >= 500) => out_parse.tag # "ClientRequest"
    /\ (out_parse # NotYet /\ in_status \in 400..499) => out_parse.tag # "ServerRequest"

C3_Witness ==
    /\ in_status = 500
    /\ in_text.ok
    /\ in_text.text \in StructuredBodies
    /\ out_parse = ServerRequest(500, in_text.text)

\* C4: a response with status < 400 whose body was read yields Ok(body),
\* the body unchanged, whatever the body is.
C4_SuccessPassesBody ==
    (ParsedBody /\ in_status < 400) => out_parse = OkText(in_text.text)

C4_Witness ==
    /\ in_status = 302
    /\ in_text.ok
    /\ in_text.text \in StructuredBodies
    /\ out_parse = OkText(in_text.text)

----------------------------------------------------------------------------
(* Properties of the classifier                                            *)

ExpectedOutcome(first) ==
    IF first.tag = "filled" THEN Filled(first.oid)
    ELSE IF first.tag = "resting" THEN Resting(first.oid)
    ELSE OtherStatus(first)

----------------------------------------------------------------------------
(* Properties of HttpClient::post                                          *)

Returned(t) == pc[t] = "returned"

Failed(t) == failure[t].stage # "none"

\* C6: a failure of the transport inside post (building the request, the
\* network exchange, reading the body) is returned as GenericRequest with
\* that error's message, whatever the status of the response was.
C6_TransportFailureIsGeneric ==
    \A t \in Tasks :
        (Returned(t) /\ Failed(t)) =>
            /\ result[t].tag = "GenericRequest"
            /\ result[t].msg = to_string(failure[t].e)

C6_Witness ==
    \E t \in Tasks :
        /\ Returned(t)
        /\ failure[t].stage = "read"
        /\ failure[t].status >= 400
        /\ result[t].tag = "GenericRequest"

\* C7: one call of post executes at most one request, whatever it returns.
C7_AtMostOneRequest ==
    \A t \in Tasks : executes[t] <= 1

C7_Witness ==
    \E t \in Tasks :
        /\ Returned(t)
        /\ executes[t] = 1
        /\ result[t].tag = "ServerRequest"

\* C8: after a failed build nothing is executed or parsed, after a failed
\* execute nothing is parsed, and the value returned is the error of the
\* stage that failed first.
C8_ShortCircuit ==
    \A t \in Tasks :
        /\ failure[t].stage = "build" => executes[t] = 0 /\ parses[t] = 0
        /\ failure[t].stage = "execute" => executes[t] = 1 /\ parses[t] = 0
        /\ failure[t].stage \in {"build", "execute"} =>
              /\ Returned(t)
              /\ result[t] = GenericRequest(to_string(failure[t].e))

C8_Witness ==
    \E t \in Tasks :
        /\ Returned(t)
        /\ failure[t].stage = "build"
        /\ executes[t] = 0
        /\ parses[t] = 0
        /\ result[t].tag = "GenericRequest"

LinesBefore(stage) ==
    IF stage = "build" THEN <<>>
    ELSE IF stage = "execute" THEN <<"HTTP Step 1 - Build request">>
    ELSE <<"HTTP Step 1 - Build request",
           "HTTP Step 2 - Execute (network + server)",
           "HTTP Step 3 - Parse response", "HTTP total time">>

----------------------------------------------------------------------------
(* Properties of next_nonce                                                *)

\* C10: under concurrent calls of next_nonce the values returned are
\* pairwise distinct, and of two calls the first of which returned before
\* the second began, the second's nonce is not smaller.
C10_NonceDistinctMonotonic ==
    \A a \in issued, b \in issued :
        /\ a # b => a.nonce # b.nonce
        /\ a.end < b.start => b.nonce >= a.nonce

C10_Witness ==
    \E a \in issued, b \in issued, c \in issued :
        /\ a.task # b.task
        /\ a.start < b.start /\ b.start < a.end
        /\ b.end < c.start
        /\ now_ms < a.nonce

----------------------------------------------------------------------------
(* C11                                                                     *)

\* The number a run of bytes denotes, most significant byte first; -1 when
\* it is beyond the integers of the model.
RECURSIVE BigEndianValue(_)
BigEndianValue(bs) ==
    IF bs = <<>> THEN 0
    ELSE LET high == BigEndianValue(SubSeq(bs, 1, Len(bs) - 1))
         IN IF high < 0 \/ high >= 8388608 THEN -1
            ELSE (high * 256) + bs[Len(bs)]

\* C11: the preimage of an action without a vault address is the canonical
\* encoding of the action, then the nonce as 8 big-endian bytes, then one
\* byte 0 and nothing else; the digest is the 32-byte hash of that preimage,
\* and every application to the same (action, nonce) yields the same digest.
C11_PreimageLayout ==
    /\ \A i \in 1..Len(out_digest) :
          LET d == out_digest[i]
              encoded == to_vec_named(in_action)
              n == Len(encoded)
          IN /\ Len(d.bytes) = n + 9
             /\ SubSeq(d.bytes, 1, n) = encoded
             /\ BigEndianValue(SubSeq(d.bytes, n + 1, n + 8)) = in_nonce
             /\ d.bytes[n + 9] = 0
             /\ Len(d.connection_id) = 32
             /\ \A k \in 1..32 : d.connection_id[k] \in Byte
             /\ d.connection_id = keccak256(d.bytes)
    /\ \A i, j \in 1..Len(out_digest) :
          out_digest[i].connection_id = out_digest[j].connection_id

C11_Witness ==
    /\ Len(out_digest) >= 2
    /\ in_nonce = 16909060
    /\ now_ms > 1

----------------------------------------------------------------------------
(* C12                                                                     *)

KeySet(object) == {object.members[i][1] : i \in 1..Len(object.members)}

\* chars is "0x" and then the 64 digits of x, each in lower-case
\* hexadecimal.
IsHexWord(chars, x) ==
    /\ Len(chars) = 66
    /\ chars[1] = 48
    /\ chars[2] = 120
    /\ \A i \in 1..64 :
          /\ chars[i + 2] \in (48..57) \cup (97..102)
          /\ x[i] = IF chars[i + 2] <= 57 THEN chars[i + 2] - 48
                    ELSE chars[i + 2] - 87

EnvelopeShape(p, sig) ==
    /\ p.j = "object"
    /\ Len(p.members) = 3
    /\ KeySet(p) = {"action", "nonce", "signature"}
    /\ LET sg == Get(p, "signature")
       IN /\ sg.j = "object"
          /\ Len(sg.members) = 3
          /\ KeySet(sg) = {"r", "s", "v"}
          /\ Get(sg, "r").j = "string"
          /\ IsHexWord(Get(sg, "r").chars, sig.r)
          /\ Get(sg, "s").j = "string"
          /\ IsHexWord(Get(sg, "s").chars, sig.s)
          /\ Get(sg, "v") = JNumber(IF sig.v THEN 28 ELSE 27)

\* C12: the envelope, as assembled and as sent, has exactly the keys action,
\* nonce and signature; signature has exactly the keys r, s and v; r and s
\* are "0x" and 64 zero-padded lower-case hexadecimal digits denoting the
\* signature's r and s, and v is 27 plus the recovery parity: 27 or 28.
C12_EnvelopeShape ==
    /\ payload # None => EnvelopeShape(payload.v, signature.v)
    /\ \A i \in 1..Len(sent) : EnvelopeShape(sent[i].body, signature.v)

C12_Witness ==
    /\ sent # <<>>
    /\ signature.v.r = U256(<<10, 11, 0, 9>>)
    /\ signature.v.v

----------------------------------------------------------------------------
(* C14                                                                     *)

StageOrder == <<"order", "convert", "action", "nonce", "digest", "sign",
                "json", "envelope", "send">>

Ran(name) == \E i \in 1..Len(stages) : stages[i] = name

Done(name) == Ran(name) /\ ~(exited # None /\ exited.v.stage = name)

\* C14: a round runs the stages convert, build action, nonce, digest, sign,
\* JSON, envelope, send in that order and each at most once; a stage that
\* fails is the last one to run; each value exists exactly when its stage
\* has succeeded, so a request is sent only after the digest was computed
\* and signed; and a round starts with no value of the round before.
C14_StagesInOrderOnce ==
    /\ Len(stages) <= Len(StageOrder)
    /\ stages = SubSeq(StageOrder, 1, Len(stages))
    /\ (exited # None) <=> (spc = "exited")
    /\ (exited # None /\ exited.v.stage # "read") =>
          stages[Len(stages)] = exited.v.stage
    /\ (order # None) <=> Done("order")
    /\ (transformed_order # None) <=> Done("convert")
    /\ (action # None) <=> Done("action")
    /\ (timestamp # None) <=> Done("nonce")
    /\ (bytes # None) <=> Done("digest")
    /\ (connection_id # None) <=> Done("digest")
    /\ (signature # None) <=> Done("sign")
    /\ (action_json # None) <=> Done("json")
    /\ (payload # None) <=> Done("envelope")
    /\ sent # <<>> =>
          /\ Len(sent) = 1
          /\ Ran("send")
          /\ connection_id # None
          /\ signature # None
    /\ Done("send") => sent # <<>>
    /\ spc = "order" =>
          /\ stages = <<>>
          /\ sent = <<>>
          /\ order = None /\ transformed_order = None /\ action = None
          /\ timestamp = None /\ bytes = None /\ connection_id = None
          /\ is_mainnet = None /\ signature = None /\ action_json = None
          /\ payload = None

C14_Witness ==
    /\ round = 2
    /\ spc = "exited"
    /\ exited.v.stage = "json"
    /\ CUR_NONCE > 3

----------------------------------------------------------------------------
(* C16                                                                     *)

----------------------------------------------------------------------------
(* C17                                                                     *)

\* C17: the nonce field of the envelope is the nonce of the round and the
\* number the eight nonce bytes of the preimage denote; the action of the
\* envelope is the value whose canonical encoding starts the preimage; and
\* what is sent is that envelope.
C17_OneNonceOneAction ==
    /\ payload # None =>
          /\ bytes # None
          /\ timestamp # None
          /\ LET n == Len(bytes.v) - 9
             IN /\ Get(payload.v, "nonce") = JNumber(timestamp.v)
                /\ Get(payload.v, "nonce").num =
                      BigEndianValue(SubSeq(bytes.v, n + 1, n + 8))
                /\ MsgPack(Get(payload.v, "action")) = SubSeq(bytes.v, 1, n)
                /\ Get(payload.v, "action") = to_value(action.v)
    /\ \A i \in 1..Len(sent) : sent[i].body = payload.v

C17_Witness ==
    /\ round >= 2
    /\ sent # <<>>
    /\ timestamp.v # now_ms
    /\ timestamp.v > 255

----------------------------------------------------------------------------
(* C13                                                                     *)

\* C13: when the client was built with a timeout and the endpoint never
\* responds, a call of post that is executing its request eventually
\* returns Err(GenericRequest) carrying the transport's timeout error.
C13_TimeoutSurfaces ==
    \A t \in Tasks :
        (pc[t] = "execute" /\ net.execute = "silent" /\ net.timeout)
        ~> (/\ pc[t] = "returned"
            /\ result[t] = GenericRequest(to_string("operation timed out")))

C13_Witness ==
    \E t \in Tasks :
        /\ net.execute = "silent"
        /\ net.timeout
        /\ pc[t] = "returned"
        /\ executes[t] = 1
        /\ result[t] = GenericRequest(to_string("operation timed out"))

----------------------------------------------------------------------------
(* C15                                                                     *)

\* C15: calls of post that meet the same transport behaviour return the
\* same result whether HL_PERF_PROFILE was set or not when they began, and
\* a call that began with the flag unset has written no timing line.
C15_FlagAffectsTimingOnly ==
    /\ \A t1, t2 \in Tasks :
          (pc[t1] = "returned" /\ pc[t2] = "returned") =>
              result[t1] = result[t2]
    /\ \A t \in Tasks : ~perf_profile[t] => perf_log[t] = <<>>

C15_Witness ==
    \E t1, t2 \in Tasks :
        /\ pc[t1] = "returned"
        /\ pc[t2] = "returned"
        /\ perf_profile[t1]
        /\ ~perf_profile[t2]
        /\ Len(perf_log[t1]) = 4
        /\ failure[t1].stage = "read"

====
